---- MODULE Spec2Model ----
(***************************************************************************)
(* AI Doc: the App component (view state, history cache in localStorage,   *)
(* disclaimer gate) and the getDiagnosis client.                           *)
(*                                                                         *)
(* Texts are sequences of one-character strings.  A JSON text is a         *)
(* sequence of tokens; JSONstringify and JSONparse convert between JSON    *)
(* values and JSON texts.                                                  *)
(***************************************************************************)
EXTENDS Integers, Sequences, FiniteSets, TLC

(***************************************************************************)
(* Bounds of the model.                                                    *)
(***************************************************************************)
\* getDiagnosis invocations started in one behaviour
MaxCalls == 2
\* calls in flight at once when the submit event is dispatched directly
MaxInFlight == 2

(***************************************************************************)
(* Program constants.                                                      *)
(***************************************************************************)
\* [newEntry, ...history].slice(0, 10)
HistoryCap == 10

(***************************************************************************)
(* Texts.                                                                  *)
(***************************************************************************)
SP == " "

IsSpace(c) == c = SP

RECURSIVE TrimStart(_)
TrimStart(s) ==
    IF s = <<>> THEN <<>>
    ELSE IF IsSpace(Head(s)) THEN TrimStart(Tail(s))
    ELSE s

RECURSIVE TrimEnd(_)
TrimEnd(s) ==
    IF s = <<>> THEN <<>>
    ELSE IF IsSpace(s[Len(s)]) THEN TrimEnd(SubSeq(s, 1, Len(s) - 1))
    ELSE s

\* a mutant of Trim: the text is tested as typed
TrimNothing(s) == s

\* String.prototype.trim
Trim(s) == TrimEnd(TrimStart(s))

\* the texts the user types into the textarea
Texts == { <<>>, <<SP>>, <<SP, "a", SP>> }

\* the literal 'true' the startup effect compares the flag with
TRUE_TEXT == <<"t", "r", "u", "e">>

\* the mutant of AcceptedText: another text is written
AcceptedTextYes == <<"y", "e", "s">>

\* the literal 'true' handleAcceptDisclaimer writes
AcceptedText == <<"t", "r", "u", "e">>

(***************************************************************************)
(* JSON values.                                                            *)
(***************************************************************************)
JValue(k, n, s, keys, items) ==
    [k |-> k, n |-> n, s |-> s, keys |-> keys, items |-> items]

JNull == JValue("null", 0, <<>>, <<>>, <<>>)
JNum(n) == JValue("num", n, <<>>, <<>>, <<>>)
JStr(s) == JValue("str", 0, s, <<>>, <<>>)
JArr(items) == JValue("arr", 0, <<>>, <<>>, items)
JObj(keys, items) == JValue("obj", 0, <<>>, keys, items)

(***************************************************************************)
(* JSON texts: sequences of tokens.                                        *)
(***************************************************************************)
Tok(k) == [k |-> k, n |-> 0, s |-> <<>>]
TNum(n) == [k |-> "num", n |-> n, s |-> <<>>]
TStr(s) == [k |-> "str", n |-> 0, s |-> s]

RECURSIVE JSONstringify(_)
RECURSIVE StringifyItems(_, _)
RECURSIVE StringifyMembers(_, _, _)

StringifyItems(items, i) ==
    IF i > Len(items) THEN <<>>
    ELSE (IF i > 1 THEN <<Tok(",")>> ELSE <<>>)
         \o JSONstringify(items[i]) \o StringifyItems(items, i + 1)

StringifyMembers(keys, items, i) ==
    IF i > Len(items) THEN <<>>
    ELSE (IF i > 1 THEN <<Tok(",")>> ELSE <<>>)
         \o <<TStr(keys[i]), Tok(":")>>
         \o JSONstringify(items[i]) \o StringifyMembers(keys, items, i + 1)

\* JSON.stringify
JSONstringify(v) ==
    CASE v.k = "null" -> <<Tok("null")>>
      [] v.k = "num" -> <<TNum(v.n)>>
      [] v.k = "str" -> <<TStr(v.s)>>
      [] v.k = "arr" -> <<Tok("[")>> \o StringifyItems(v.items, 1) \o <<Tok("]")>>
      [] v.k = "obj" ->
            <<Tok("{")>> \o StringifyMembers(v.keys, v.items, 1) \o <<Tok("}")>>

ParseFail == [ok |-> FALSE, val |-> JNull, next |-> 0]
ParseOk(v, next) == [ok |-> TRUE, val |-> v, next |-> next]

RECURSIVE ParseValue(_, _)
RECURSIVE ParseElements(_, _, _)
RECURSIVE ParseMembers(_, _, _, _)

ParseElements(t, i, acc) ==
    LET r == ParseValue(t, i) IN
    IF ~r.ok \/ r.next > Len(t) THEN ParseFail
    ELSE IF t[r.next].k = "," THEN ParseElements(t, r.next + 1, Append(acc, r.val))
    ELSE IF t[r.next].k = "]" THEN ParseOk(JArr(Append(acc, r.val)), r.next + 1)
    ELSE ParseFail

ParseMembers(t, i, keys, acc) ==
    IF i + 1 > Len(t) \/ t[i].k # "str" \/ t[i + 1].k # ":" THEN ParseFail
    ELSE LET r == ParseValue(t, i + 2) IN
         IF ~r.ok \/ r.next > Len(t) THEN ParseFail
         ELSE IF t[r.next].k = ","
              THEN ParseMembers(t, r.next + 1, Append(keys, t[i].s), Append(acc, r.val))
         ELSE IF t[r.next].k = "}"
              THEN ParseOk(JObj(Append(keys, t[i].s), Append(acc, r.val)), r.next + 1)
         ELSE ParseFail

ParseValue(t, i) ==
    IF i > Len(t) THEN ParseFail
    ELSE CASE t[i].k = "null" -> ParseOk(JNull, i + 1)
           [] t[i].k = "num" -> ParseOk(JNum(t[i].n), i + 1)
           [] t[i].k = "str" -> ParseOk(JStr(t[i].s), i + 1)
           [] t[i].k = "[" ->
                IF i + 1 <= Len(t) /\ t[i + 1].k = "]"
                THEN ParseOk(JArr(<<>>), i + 2)
                ELSE ParseElements(t, i + 1, <<>>)
           [] t[i].k = "{" ->
                IF i + 1 <= Len(t) /\ t[i + 1].k = "}"
                THEN ParseOk(JObj(<<>>, <<>>), i + 2)
                ELSE ParseMembers(t, i + 1, <<>>, <<>>)
           [] OTHER -> ParseFail

\* JSON.parse: ok = FALSE stands for the SyntaxError it throws
JSONparse(t) ==
    LET r == ParseValue(t, 1) IN
    IF r.ok /\ r.next = Len(t) + 1
    THEN [ok |-> TRUE, val |-> r.val]
    ELSE [ok |-> FALSE, val |-> JNull]


(***************************************************************************)
(* DiagnosisResult and SymptomEntry objects.  A key is written as one      *)
(* symbol; of a DiagnosisResult only the severity member is kept.          *)
(***************************************************************************)
Key(name) == <<name>>

\* a complete DiagnosisResult of the given severity
DiagnosisResult(severity) == JObj(<<Key("severity")>>, <<JStr(<<severity>>)>>)

\* the object literal {}
EmptyObject == JObj(<<>>, <<>>)

\* the mutant of newEntry: the trimmed text is stored
newEntryTrimmed(id, timestamp, text, data) ==
    JObj(<<Key("id"), Key("timestamp"), Key("symptoms"), Key("result")>>,
         <<JNum(id), JNum(timestamp), JStr(Trim(text)), data>>)

\* const newEntry: SymptomEntry = { id, timestamp, symptoms, result: data }
newEntry(id, timestamp, text, data) ==
    JObj(<<Key("id"), Key("timestamp"), Key("symptoms"), Key("result")>>,
         <<JNum(id), JNum(timestamp), JStr(text), data>>)

\* item.id, item.symptoms, item.result
EntryId(e) == e.items[1].n
EntrySymptoms(e) == e.items[3].s
EntryResult(e) == e.items[4]

Take(s, n) == SubSeq(s, 1, IF Len(s) < n THEN Len(s) ELSE n)

\* the mutant of updatedHistory: the slice is missing
updatedHistoryUncapped(entry, hist) == <<entry>> \o hist

\* [newEntry, ...history].slice(0, 10)
updatedHistory(entry, hist) == Take(<<entry>> \o hist, HistoryCap)

(***************************************************************************)
(* localStorage: each key is absent or holds a text.                       *)
(***************************************************************************)
Absent == [present |-> FALSE, text |-> <<>>]
Item(text) == [present |-> TRUE, text |-> text]

(***************************************************************************)
(* What an earlier session left in localStorage: the history it wrote      *)
(* after k successful submits (entries 1..k, newest first), possibly cut   *)
(* short afterwards, and the disclaimer flag.                              *)
(***************************************************************************)
PriorEntry(i) == newEntry(i, i, <<"a">>, DiagnosisResult("Low"))
PriorHistory(k) == [i \in 1..k |-> PriorEntry(k - i + 1)]
PriorLens == {HistoryCap - 1}
PriorText(k) == JSONstringify(JArr(PriorHistory(k)))
\* a stored history cut after its n-th token
Truncated(k, n) == SubSeq(PriorText(k), 1, n)
TruncatedTexts == { Truncated(1, 0), Truncated(1, 8) }

InitialHistories ==
    [k : {0}, item : {Absent}]
    \cup [k : {0}, item : {Item(t) : t \in TruncatedTexts}]
    \cup { [k |-> k, item |-> Item(PriorText(k))] : k \in PriorLens }
InitialFlags == {Absent, Item(TRUE_TEXT)}

(***************************************************************************)
(* The responses of ai.models.generateContent.                             *)
(***************************************************************************)
\* the call rejects (network, auth or server error)
ResponseError == [err |-> TRUE, defined |-> FALSE, text |-> <<>>]
\* the call resolves; response.text is undefined or a text
ResponseNoText == [err |-> FALSE, defined |-> FALSE, text |-> <<>>]
ResponseText(t) == [err |-> FALSE, defined |-> TRUE, text |-> t]

ResultText == JSONstringify(DiagnosisResult("High"))

Responses ==
    { ResponseError,
      ResponseNoText,
      ResponseText(<<>>),
      ResponseText(ResultText),
      ResponseText(SubSeq(ResultText, 1, 3)) }

\* response.text || "{}"
TextOrDefault(resp) ==
    IF resp.defined /\ resp.text # <<>> THEN resp.text
    ELSE JSONstringify(EmptyObject)

\* getDiagnosis, once generateContent has settled with resp:
\* ok = FALSE stands for the rejected promise
getDiagnosis(resp) ==
    IF resp.err THEN [ok |-> FALSE, data |-> JNull]
    ELSE LET parsed == JSONparse(TextOrDefault(resp)) IN
         IF parsed.ok THEN [ok |-> TRUE, data |-> parsed.val]
         ELSE [ok |-> FALSE, data |-> JNull]

(***************************************************************************)
(* State.                                                                  *)
(***************************************************************************)
VARIABLES
    pc,                     \* "constructed", "mounted" or "crashed"
    symptoms,               \* useState('')
    isLoading,              \* useState(false)
    result,                 \* useState(null)
    history,                \* useState([])
    showDisclaimer,         \* useState(true)
    hasAcceptedDisclaimer,  \* useState(false)
    storage,                \* localStorage
    pending,                \* the getDiagnosis calls in flight, with what
                            \* the handler that made them captured
    nextId,                 \* the next value of crypto.randomUUID / Date.now
    calls,                  \* getDiagnosis invocations so far
    last,                   \* the last step and what it reported
    successes,              \* the entries built since the last clearHistory
    faulted,                \* writing an entry threw since then
    firstRun                \* the first session found no disclaimer flag

vars == <<pc, symptoms, isLoading, result, history, showDisclaimer,
          hasAcceptedDisclaimer, storage, pending, nextId, calls, last,
          successes, faulted, firstRun>>

AllKept ==
    [isLoading |-> TRUE, result |-> TRUE, history |-> TRUE, storage |-> TRUE,
     pending |-> TRUE]

\* what the step now taken leaves as it was
Kept ==
    [isLoading |-> isLoading' = isLoading, result |-> result' = result,
     history |-> history' = history, storage |-> storage' = storage,
     pending |-> pending' = pending]

\* The record of a step.  op: the step; outcome: how a settled call ended;
\* alerts: its alert() calls; uncaught: an error left it uncaught; text,
\* closureLen, touched: the symptoms and the length of the history the
\* settled call had captured, and whether the user changed the result or the
\* history while it was in flight; resp, data: the response and the value
\* getDiagnosis returned; fresh: the id of the entry built is in no entry of
\* the history before; asAtSubmit: what is now as it was when the settled
\* call was submitted; kept: what the step left as it was; wasLoading,
\* wasInFlight, wasEmpty: isLoading, the calls in flight and whether the
\* history was empty before it; callsMade: the getDiagnosis invocations it
\* made; afterClear: the step is a reload that follows clearHistory, or the
\* load of that fresh session
Step(op) ==
    [op |-> op, outcome |-> "", alerts |-> 0, uncaught |-> FALSE,
     text |-> <<>>, closureLen |-> 0, touched |-> FALSE,
     resp |-> ResponseError, data |-> JNull, fresh |-> FALSE,
     asAtSubmit |-> [result |-> FALSE, history |-> FALSE, stored |-> FALSE],
     kept |-> AllKept, wasLoading |-> FALSE, wasInFlight |-> 0,
     wasEmpty |-> FALSE, callsMade |-> 0, afterClear |-> FALSE]

\* the record of the step now taken
Done(op) ==
    [Step(op) EXCEPT !.kept = Kept, !.wasLoading = isLoading,
                     !.wasInFlight = Len(pending),
                     !.wasEmpty = (Len(history) = 0),
                     !.callsMade = calls' - calls]

Init ==
    /\ pc = "constructed"
    /\ symptoms = <<>>
    /\ isLoading = FALSE
    /\ result = JNull
    /\ history = <<>>
    /\ showDisclaimer = TRUE
    /\ hasAcceptedDisclaimer = FALSE
    /\ \E h \in InitialHistories, f \in InitialFlags :
          /\ storage = [aidoc_history |-> h.item, aidoc_disclaimer_accepted |-> f]
          /\ nextId = h.k + 1
          /\ successes = PriorHistory(h.k)
          /\ firstRun = ~f.present
    /\ pending = <<>>
    /\ calls = 0
    /\ last = Step("init")
    /\ faulted = FALSE

\* localStorage.getItem(key): null for an absent key
Truthy(item) == item.present /\ item.text # <<>>

(***************************************************************************)
(* useEffect(() => {...}, []): the load at startup.                        *)
(***************************************************************************)
\* accepted === 'true'
FlagAccepted(item) == item.present /\ item.text = TRUE_TEXT

Mount ==
    /\ pc = "constructed"
    /\ LET savedHistory == storage.aidoc_history
           parsed == JSONparse(savedHistory.text)
           accepted == storage.aidoc_disclaimer_accepted
       IN IF Truthy(savedHistory) /\ ~parsed.ok
          THEN \* JSON.parse throws out of the effect: React unmounts the tree
               /\ pc' = "crashed"
               /\ last' = [Step("mount") EXCEPT !.uncaught = TRUE,
                                                 !.afterClear = last.afterClear]
               /\ UNCHANGED <<history, showDisclaimer, hasAcceptedDisclaimer>>
          ELSE /\ pc' = "mounted"
               /\ last' = [Step("mount") EXCEPT !.afterClear = last.afterClear]
               /\ history' = IF Truthy(savedHistory) THEN parsed.val.items
                             ELSE history
               /\ IF FlagAccepted(accepted)
                  THEN hasAcceptedDisclaimer' = TRUE /\ showDisclaimer' = FALSE
                  ELSE UNCHANGED <<showDisclaimer, hasAcceptedDisclaimer>>
    /\ UNCHANGED <<symptoms, isLoading, result, storage, pending, nextId, calls,
                   successes, faulted, firstRun>>

\* the page is loaded again: a fresh session over the same localStorage
Reload ==
    /\ pc # "constructed"
    /\ pc' = "constructed"
    /\ symptoms' = <<>>
    /\ isLoading' = FALSE
    /\ result' = JNull
    /\ history' = <<>>
    /\ showDisclaimer' = TRUE
    /\ hasAcceptedDisclaimer' = FALSE
    /\ pending' = <<>>
    /\ last' = [Step("reload") EXCEPT !.afterClear = (last.op = "clear")]
    /\ UNCHANGED <<storage, nextId, calls, successes, faulted, firstRun>>

\* onChange={(e) => setSymptoms(e.target.value)}
SetSymptoms(t) ==
    /\ pc = "mounted"
    /\ t # symptoms
    /\ symptoms' = t
    /\ last' = Step("ui")
    /\ UNCHANGED <<pc, isLoading, result, history, showDisclaimer,
                   hasAcceptedDisclaimer, storage, pending, nextId, calls,
                   successes, faulted, firstRun>>

(***************************************************************************)
(* handleDiagnosis, up to the await.                                       *)
(***************************************************************************)
\* every call in flight has seen the user change the result or the history
Touch(p) == [j \in 1..Len(p) |-> [p[j] EXCEPT !.touched = TRUE]]

\* if (!symptoms.trim()) return;
Blank(text) == Trim(text) = <<>>

handleDiagnosis ==
    IF Blank(symptoms)
    THEN /\ UNCHANGED <<pc, symptoms, isLoading, result, history, showDisclaimer,
                        hasAcceptedDisclaimer, storage, pending, nextId, calls,
                        successes, faulted, firstRun>>
         /\ last' = Done("submitBlank")
    ELSE /\ isLoading' = TRUE
         /\ pending' = Append(pending,
                [symptoms |-> symptoms, history |-> history,
                 resultAtSubmit |-> result,
                 storedAtSubmit |-> storage.aidoc_history,
                 touched |-> FALSE])
         /\ calls' = calls + 1
         /\ UNCHANGED <<pc, symptoms, result, history, showDisclaimer,
                        hasAcceptedDisclaimer, storage, nextId, successes,
                        faulted, firstRun>>
         /\ last' = Done("submit")

\* the mutant of SubmitDisabled: the button ignores isLoading
SubmitDisabledWhenBlank == Blank(symptoms)

\* disabled={isLoading || !symptoms.trim()}
SubmitDisabled == isLoading \/ Blank(symptoms)

\* a click on the submit button: nothing happens on a disabled button,
\* otherwise the form's onSubmit runs
ClickSubmit ==
    /\ pc = "mounted"
    /\ SubmitDisabled \/ calls < MaxCalls
    /\ IF SubmitDisabled
       THEN /\ UNCHANGED <<pc, symptoms, isLoading, result, history,
                           showDisclaimer, hasAcceptedDisclaimer, storage,
                           pending, nextId, calls, successes, faulted, firstRun>>
            /\ last' = Done("clickDisabled")
       ELSE handleDiagnosis

\* the form's submit event dispatched without the button
FormSubmit ==
    /\ pc = "mounted"
    /\ calls < MaxCalls
    /\ Len(pending) < MaxInFlight
    /\ handleDiagnosis

(***************************************************************************)
(* handleDiagnosis, from the await on: the call i settles with resp; env   *)
(* says whether writing the history (localStorage.setItem) throws.         *)
(***************************************************************************)
Envs == {"ok", "setItemThrow"}

Remove(p, i) == SubSeq(p, 1, i - 1) \o SubSeq(p, i + 1, Len(p))

\* the mutant of ResultAfter: the catch block clears the result
ResultAfterClearing(r, current) == IF r.ok THEN r.data ELSE JNull

\* setResult(data) when the await returns; the catch block sets nothing
ResultAfter(r, current) == IF r.ok THEN r.data ELSE current

\* alert(...) in the catch block
Alerts(r, env) == IF ~r.ok \/ env # "ok" THEN 1 ELSE 0

\* the mutant of LoadingAfter: setIsLoading(false) ends the try block
LoadingAfterTry(r, env) == ~(r.ok /\ env = "ok")

\* finally { setIsLoading(false); }
LoadingAfter(r, env) == FALSE

Settle(i, resp, env) ==
    /\ pc = "mounted"
    /\ i \in 1..Len(pending)
    /\ LET call == pending[i]
           r == getDiagnosis(resp)
           entry == newEntry(nextId, nextId, call.symptoms, r.data)
           updated == updatedHistory(entry, call.history)
           written == r.ok /\ env = "ok"
       IN /\ ~r.ok => env = "ok"
          /\ result' = ResultAfter(r, result)
          /\ history' = IF r.ok THEN updated ELSE history
          /\ nextId' = IF r.ok THEN nextId + 1 ELSE nextId
          /\ storage' = IF written
                        THEN [storage EXCEPT
                                !.aidoc_history = Item(JSONstringify(JArr(updated)))]
                        ELSE storage
          /\ successes' = IF r.ok THEN <<entry>> \o successes ELSE successes
          /\ faulted' = (faulted \/ (r.ok /\ env # "ok"))
          /\ isLoading' = LoadingAfter(r, env)
          /\ pending' = Touch(Remove(pending, i))
          /\ UNCHANGED <<pc, symptoms, showDisclaimer, hasAcceptedDisclaimer,
                         calls, firstRun>>
          /\ last' = [Done("settle") EXCEPT
                        !.outcome = IF ~r.ok THEN "rejected" ELSE env,
                        !.alerts = Alerts(r, env),
                        !.text = call.symptoms,
                        !.closureLen = Len(call.history),
                        !.touched = call.touched,
                        !.resp = resp,
                        !.data = r.data,
                        !.fresh = \A j \in 1..Len(history) :
                                     EntryId(history[j]) # nextId,
                        !.asAtSubmit =
                            [result |-> result' = call.resultAtSubmit,
                             history |-> history' = call.history,
                             stored |-> storage'.aidoc_history = call.storedAtSubmit]]

(***************************************************************************)
(* The history list.                                                       *)
(***************************************************************************)
\* onClick={() => setResult(item.result)}
selectFromHistory(i) ==
    /\ pc = "mounted"
    /\ i \in 1..Len(history)
    /\ result' = EntryResult(history[i])
    /\ pending' = Touch(pending)
    /\ last' = Step("ui")
    /\ UNCHANGED <<pc, symptoms, isLoading, history, showDisclaimer,
                   hasAcceptedDisclaimer, storage, nextId, calls, successes,
                   faulted, firstRun>>

\* the mutant of clearHistory: localStorage.removeItem is missing
clearHistoryInMemoryOnly ==
    /\ pc = "mounted"
    /\ Len(history) > 0
    /\ history' = <<>>
    /\ pending' = Touch(pending)
    /\ successes' = <<>>
    /\ faulted' = FALSE
    /\ UNCHANGED <<pc, symptoms, isLoading, result, showDisclaimer,
                   hasAcceptedDisclaimer, storage, nextId, calls, firstRun>>
    /\ last' = Done("clear")

\* the Clear button, rendered when history.length > 0
clearHistory ==
    /\ pc = "mounted"
    /\ Len(history) > 0
    /\ history' = <<>>
    /\ storage' = [storage EXCEPT !.aidoc_history = Absent]
    /\ pending' = Touch(pending)
    /\ successes' = <<>>
    /\ faulted' = FALSE
    /\ UNCHANGED <<pc, symptoms, isLoading, result, showDisclaimer,
                   hasAcceptedDisclaimer, nextId, calls, firstRun>>
    /\ last' = Done("clear")

(***************************************************************************)
(* The disclaimer gate.                                                    *)
(***************************************************************************)
\* the Accept button of the modal; ok = FALSE: localStorage.setItem throws
\* after the two state updates, and nothing catches it
handleAcceptDisclaimer(ok) ==
    /\ pc = "mounted"
    /\ showDisclaimer
    /\ hasAcceptedDisclaimer' = TRUE
    /\ showDisclaimer' = FALSE
    /\ storage' = IF ok
                  THEN [storage EXCEPT !.aidoc_disclaimer_accepted = Item(AcceptedText)]
                  ELSE storage
    /\ UNCHANGED <<pc, symptoms, isLoading, result, history, pending, nextId,
                   calls, successes, faulted, firstRun>>
    /\ last' = [Done("accept") EXCEPT !.uncaught = ~ok]

\* the mutant of BackdropCloses: the backdrop closes the gate regardless
BackdropAlwaysCloses == TRUE

\* hasAcceptedDisclaimer && setShowDisclaimer(false)
BackdropCloses == hasAcceptedDisclaimer

\* a click on the modal's backdrop
BackdropClick ==
    /\ pc = "mounted"
    /\ showDisclaimer
    /\ showDisclaimer' = IF BackdropCloses THEN FALSE ELSE showDisclaimer
    /\ last' = Step("backdrop")
    /\ UNCHANGED <<pc, symptoms, isLoading, result, history,
                   hasAcceptedDisclaimer, storage, pending, nextId, calls,
                   successes, faulted, firstRun>>

\* the Close button, rendered when hasAcceptedDisclaimer
CloseClick ==
    /\ pc = "mounted"
    /\ showDisclaimer
    /\ hasAcceptedDisclaimer
    /\ showDisclaimer' = FALSE
    /\ last' = Step("ui")
    /\ UNCHANGED <<pc, symptoms, isLoading, result, history,
                   hasAcceptedDisclaimer, storage, pending, nextId, calls,
                   successes, faulted, firstRun>>

\* the Disclaimer button of the header: setShowDisclaimer(true)
Reopen ==
    /\ pc = "mounted"
    /\ showDisclaimer' = TRUE
    /\ last' = Step("ui")
    /\ UNCHANGED <<pc, symptoms, isLoading, result, history,
                   hasAcceptedDisclaimer, storage, pending, nextId, calls,
                   successes, faulted, firstRun>>

\* the first entry showing each result: the other entries with the same
\* result lead to the same state
Selectable ==
    { i \in 1..Len(history) :
        \A j \in 1..(i - 1) : EntryResult(history[j]) # EntryResult(history[i]) }

(***************************************************************************)
(* Specifications.  Spec: the page as the user drives it.  SpecDirect: the *)
(* same, with the form's submit event dispatched without the button.       *)
(***************************************************************************)
Other ==
    \/ Mount
    \/ Reload
    \/ \E t \in Texts : SetSymptoms(t)
    \/ \E i \in 1..Len(pending), resp \in Responses, env \in Envs :
          Settle(i, resp, env)
    \/ \E i \in Selectable : selectFromHistory(i)
    \/ clearHistory
    \/ \E ok \in BOOLEAN : handleAcceptDisclaimer(ok)
    \/ BackdropClick
    \/ CloseClick
    \/ Reopen

Next == ClickSubmit \/ Other

Spec == Init /\ [][Next]_vars

NextDirect == FormSubmit \/ Other

SpecDirect == Init /\ [][NextDirect]_vars

\* a first visit: nothing is stored under aidoc_history
InitFirstVisit == Init /\ ~storage.aidoc_history.present

\* a call in flight does not stay pending for ever: at the latest the
\* transport fails it, and handleDiagnosis resumes in its catch block
TransportFails == Settle(1, ResponseError, "ok")

\* the page from a first visit on, where a call in flight does settle
SpecLive == InitFirstVisit /\ [][Next]_vars /\ WF_vars(TransportFails)

(***************************************************************************)
(* What the claims speak of.                                               *)
(***************************************************************************)
\* the entries persisted under aidoc_history (none when the key is absent
\* or its text does not parse)
Persisted ==
    LET item == storage.aidoc_history
        parsed == JSONparse(item.text)
    IN IF Truthy(item) /\ parsed.ok THEN parsed.val.items ELSE <<>>

\* a settled call whose getDiagnosis returned a value
Returned == last.op = "settle" /\ last.outcome \in {"ok", "setItemThrow"}

\* a settled call whose getDiagnosis failed
Rejected == last.op = "settle" /\ last.outcome = "rejected"

\* the last step changed neither the view state nor localStorage and made
\* no call
NothingChanged == last.kept = AllKept /\ last.callsMade = 0

WhitespaceOnly(text) == \A i \in 1..Len(text) : text[i] = SP

\* the text of a response is valid JSON
ValidJSON(resp) == ~resp.err /\ resp.defined /\ JSONparse(resp.text).ok

\* the persisted history text is there and does not parse
Malformed(item) == item.present /\ item.text # <<>> /\ ~JSONparse(item.text).ok

(***************************************************************************)
(* C1.  The history, in memory and persisted, holds at most 10 entries;    *)
(* after N >= 10 successful submits with no clearHistory in between, a     *)
(* loaded session's history and the persisted array are exactly the 10     *)
(* most recent entries, newest first.                                      *)
(***************************************************************************)
TenMostRecent == Take(successes, HistoryCap)

C2_SingleFlight ==
    /\ Len(pending) <= 1
    /\ isLoading <=> Len(pending) = 1
    /\ last.op = "submit" => (~last.wasLoading /\ last.wasInFlight = 0)
    /\ (last.op = "clickDisabled" /\ last.wasLoading) => NothingChanged

\* the button is clicked with a valid text while a call is in flight
C2_Witness ==
    /\ last.op = "clickDisabled"
    /\ last.wasLoading
    /\ isLoading
    /\ ~WhitespaceOnly(symptoms)

(***************************************************************************)
(* C3.  An accepted submit whose getDiagnosis call returns a value ends    *)
(* with that value as the result, isLoading false, and a new entry with    *)
(* the untrimmed submit-time text and that value at index 0 of the         *)
(* history and of the persisted array; isLoading is true in between.       *)
(***************************************************************************)
InMemoryAfterReturn ==
    /\ result = last.data
    /\ ~isLoading
    /\ Len(history) >= 1
    /\ EntrySymptoms(history[1]) = last.text
    /\ EntryResult(history[1]) = last.data
    /\ last.fresh

\* C3 as claimed: fails when the write of the history throws
C3_AsClaimed ==
    /\ Len(pending) > 0 => isLoading
    /\ Returned =>
          /\ InMemoryAfterReturn
          /\ Len(Persisted) >= 1
          /\ Persisted[1] = history[1]

\* C3, amended: ... of the persisted array unless localStorage.setItem
\* throws, and then the persisted value is left as it was
C3_SubmitSuccess ==
    /\ Len(pending) > 0 => isLoading
    /\ Returned => InMemoryAfterReturn
    /\ (Returned /\ last.outcome = "ok")
          => (Len(Persisted) >= 1 /\ Persisted[1] = history[1])
    /\ (Returned /\ last.outcome = "setItemThrow") => last.kept.storage

\* a text with whitespace around it was submitted and a result came back
C3_Witness ==
    /\ Returned /\ last.outcome = "ok"
    /\ last.text = <<SP, "a", SP>>
    /\ last.data = DiagnosisResult("High")
    /\ last.wasLoading

(***************************************************************************)
(* C4.  When the getDiagnosis call fails, the failure is reported once,    *)
(* isLoading is false, and result, history and persisted history are as    *)
(* before the submit.                                                      *)
(***************************************************************************)
\* C4 as claimed: fails when the user selects a history entry or clears
\* the history while the call is in flight
C4_AsClaimed ==
    Rejected =>
        /\ last.alerts = 1
        /\ ~isLoading
        /\ last.asAtSubmit.result
        /\ last.asAtSubmit.history
        /\ last.asAtSubmit.stored

\* C4, amended: ... are as just before the call settled, hence as before the
\* submit unless the user selected an entry or cleared the history meanwhile
C4_SubmitFailure ==
    Rejected =>
        /\ last.alerts = 1
        /\ ~last.uncaught
        /\ ~isLoading
        /\ last.kept.result
        /\ last.kept.history
        /\ last.kept.storage
        /\ ~last.touched =>
              /\ last.asAtSubmit.result
              /\ last.asAtSubmit.history
              /\ last.asAtSubmit.stored

\* a call failed while an earlier result was on display
C4_Witness ==
    /\ Rejected
    /\ ~last.touched
    /\ result # JNull
    /\ Len(history) > 0

(***************************************************************************)
(* C5.  A submit of an empty or whitespace-only text changes nothing and   *)
(* calls nothing.                                                          *)
(***************************************************************************)
C5_BlankSubmit ==
    /\ last.op = "submitBlank" => NothingChanged
    /\ last.op = "submit" => ~WhitespaceOnly(symptoms)

\* the handler ran on a text of one space
C5_Witness ==
    /\ last.op = "submitBlank"
    /\ symptoms = <<SP>>

(***************************************************************************)
(* C6.  With malformed JSON under aidoc_history the startup load raises    *)
(* nothing, yields an empty history and still reads the disclaimer flag.   *)
(***************************************************************************)
C6_AsClaimed ==
    (last.op = "mount" /\ Malformed(storage.aidoc_history)) =>
        /\ ~last.uncaught
        /\ pc = "mounted"
        /\ history = <<>>
        /\ FlagAccepted(storage.aidoc_disclaimer_accepted)
              => (hasAcceptedDisclaimer /\ ~showDisclaimer)

(***************************************************************************)
(* C7.  A localStorage.setItem that throws, in the history prepend or in   *)
(* accept, is never reported to the user and never escapes uncaught, and   *)
(* the diagnosis stays on display.                                         *)
(***************************************************************************)
C7_AsClaimed ==
    /\ (last.op = "settle" /\ last.outcome = "setItemThrow") =>
          (last.alerts = 0 /\ ~last.uncaught /\ result = last.data)
    /\ last.op = "accept" => ~last.uncaught

(***************************************************************************)
(* C8.  getDiagnosis fails whenever the external call errors or the        *)
(* response text is not valid JSON (an empty or missing text included),    *)
(* returns a value only when the text parses, and makes one external call  *)
(* per invocation.                                                         *)
(***************************************************************************)
C8_AsClaimed ==
    /\ last.op = "settle" => (Returned <=> ValidJSON(last.resp))
    /\ last.op = "settle" => last.callsMade = 0
    /\ last.op = "submit" => last.callsMade = 1

(***************************************************************************)
(* C9.  A session started with no persisted flag shows the gate with       *)
(* accepted = false; accept sets accepted, hides the gate and persists     *)
(* aidoc_disclaimer_accepted = "true"; every later fresh session that      *)
(* loads with the flag has the gate hidden and accepted = true.            *)
(***************************************************************************)
StartsUnaccepted ==
    (last.op = "mount" /\ pc = "mounted"
        /\ ~storage.aidoc_disclaimer_accepted.present)
    => (showDisclaimer /\ ~hasAcceptedDisclaimer)

StartsAccepted ==
    (firstRun /\ last.op = "mount"
        /\ storage.aidoc_disclaimer_accepted = Item(TRUE_TEXT))
    => (pc = "mounted" /\ ~showDisclaimer /\ hasAcceptedDisclaimer)

\* C9 as claimed: fails when the write of the flag throws
C9_AsClaimed ==
    /\ StartsUnaccepted
    /\ last.op = "accept" =>
          /\ hasAcceptedDisclaimer /\ ~showDisclaimer
          /\ storage.aidoc_disclaimer_accepted = Item(TRUE_TEXT)
    /\ StartsAccepted

\* C9, amended: ... persists the flag unless localStorage.setItem throws,
\* and then localStorage is left as it was
C9_DisclaimerLifecycle ==
    /\ StartsUnaccepted
    /\ last.op = "accept" =>
          /\ hasAcceptedDisclaimer /\ ~showDisclaimer
          /\ ~last.uncaught => storage.aidoc_disclaimer_accepted = Item(TRUE_TEXT)
          /\ last.uncaught => last.kept.storage
    /\ StartsAccepted

\* a fresh session after an accept of this run has loaded the flag
C9_Witness ==
    /\ firstRun
    /\ last.op = "mount"
    /\ storage.aidoc_disclaimer_accepted = Item(TRUE_TEXT)
    /\ hasAcceptedDisclaimer

(***************************************************************************)
(* C10.  While accepted = false the gate is visible, whatever the          *)
(* interleaving; a dismiss changes nothing then.                           *)
(***************************************************************************)
C10_GateStaysOpen == ~hasAcceptedDisclaimer => showDisclaimer

\* the backdrop was clicked before the disclaimer was accepted
C10_Witness ==
    /\ last.op = "backdrop"
    /\ ~hasAcceptedDisclaimer
    /\ showDisclaimer

(***************************************************************************)
(* C11.  clearHistory empties the history in memory and removes the        *)
(* persisted aidoc_history, so that the load of a session started right    *)
(* after it yields an empty history; the result on display and isLoading   *)
(* are left as they were.                                                  *)
(***************************************************************************)
C11_ClearHistory ==
    /\ last.op = "clear" =>
          /\ history = <<>>
          /\ storage.aidoc_history = Absent
          /\ Persisted = <<>>
          /\ last.kept.result
          /\ last.kept.isLoading
    /\ (last.op = "reload" /\ last.afterClear) => storage.aidoc_history = Absent
    /\ (last.op = "mount" /\ last.afterClear) =>
          (pc = "mounted" /\ ~last.uncaught /\ history = <<>>)

\* a session started right after a clear has loaded
C11_Witness ==
    /\ last.op = "mount"
    /\ last.afterClear
    /\ pc = "mounted"
    /\ successes = <<>>

(***************************************************************************)
(* C12.  An accepted submit runs to completion: within a session isLoading,*)
(* once true, stays true until the getDiagnosis call settles; when the     *)
(* call settles, with a value or a failure, a failure to persist the       *)
(* entry included, isLoading becomes false again and a new submit is       *)
(* possible; with calls that do settle, Loading never lasts for ever.      *)
(***************************************************************************)
\* after handleDiagnosis has resumed nothing is in flight, isLoading is
\* false and the button is disabled only by a blank text
Completed ==
    last.op = "settle" =>
        /\ last.wasLoading
        /\ ~isLoading
        /\ Len(pending) = 0
        /\ SubmitDisabled <=> Blank(symptoms)

\* isLoading becomes false only when the call settles (or the page is
\* loaded again)
LoadingEnds ==
    (isLoading /\ ~isLoading') => (last'.op = "settle" \/ pc' = "constructed")

C12_RunsToCompletion ==
    /\ []Completed
    /\ [][LoadingEnds]_vars
    /\ (isLoading ~> ~isLoading)

\* a call whose entry could not be persisted has settled and the button is
\* enabled again
C12_Witness ==
    /\ last.op = "settle"
    /\ last.outcome = "setItemThrow"
    /\ last.alerts = 1
    /\ last.wasLoading
    /\ ~isLoading
    /\ ~SubmitDisabled

(***************************************************************************)
(* C13.  A clearHistory while a submit is in flight is not undone by the   *)
(* submit: after it succeeds, the history in memory and the persisted one  *)
(* hold the new entry only.                                                *)
(***************************************************************************)
\* the call that returned had captured a history with entries, and the
\* history was empty when it returned: it was cleared while the call was in
\* flight
ClearedInFlight == Returned /\ last.closureLen > 0 /\ last.wasEmpty

\* C13 as claimed: fails, the entry is prepended to the history the handler
\* captured when the submit started
C13_AsClaimed ==
    ClearedInFlight =>
        /\ Len(history) = 1
        /\ last.outcome = "ok" => Len(Persisted) = 1

====
